---------------------------- MODULE Spec2Model ----------------------------
(***************************************************************************)
(* A model of src/buffer.py: ActivationsBufferConfig (the configuration    *)
(* constructor) and ActivationsBuffer (construction, refresh(), next()).   *)
(*                                                                         *)
(* An activation vector is modelled by its identity: Zero is the zero-fill *)
(* of the initial allocation (torch.zeros), and every vector sampled in a  *)
(* model round gets an identity of its own (see ActsOf), so the store is a *)
(* sequence of identities.  The model (HookedTransformer) and the corpus are external: *)
(* of a model round only the shape of its result matters, and the number   *)
(* of positions of a batch is chosen nondeterministically in 1..MaxPos.    *)
(***************************************************************************)
EXTENDS Integers, Sequences, FiniteSets, TLC

\* ------------------------------------------------------------------ bounds

\* largest buffer_size of the configurations explored
MaxBuf == 3
\* largest model_batch_size
MaxBatch == 2
\* largest samples_per_seq
MaxSps == 2
\* largest number of positions (tokens, BOS included) of a batch of sequences
MaxPos == 2
\* largest corpus length, len(dataset['text'])
MaxCorpus == 2
\* longest list passed as layers
MaxLayers == 2
\* number of next() calls a client that passes any count makes
MaxCalls == 2
\* number of next() calls a client that reads one vector at a time makes
MaxReads == 13

\* ------------------------------------------------------ Python / torch helpers

Min(a, b) == IF a <= b THEN a ELSE b
Max(a, b) == IF a >= b THEN a ELSE b

\* math.ceil(a / b) for a >= 0, b > 0
Ceil(a, b) == (a + b - 1) \div b

\* Python's a % n for n > 0 (the result has the sign of n)
PyMod(a, n) == a % n

\* The bounds of a Python / torch slice [start:stop] of a sequence of length n,
\* 0-based, as (first index, one past the last index): a negative bound counts
\* from the end, and both are clamped into 0..n.
SliceBound(i, n) == IF i < 0 THEN Max(i + n, 0) ELSE Min(i, n)
SliceLo(start, stop, n) == SliceBound(start, n)
SliceHi(start, stop, n) == Max(SliceBound(start, n), SliceBound(stop, n))
SliceLen(start, stop, n) == SliceHi(start, stop, n) - SliceLo(start, stop, n)

\* s[start:stop] of a TLA+ sequence (1-based) with Python's slice bounds
Slice(s, start, stop) ==
    [k \in 1..SliceLen(start, stop, Len(s)) |-> s[SliceLo(start, stop, Len(s)) + k]]

\* torch.roll(s, shift, 0): the element at index i moves to (i + shift) mod n
Roll(s, shift) ==
    IF Len(s) = 0 THEN s
    ELSE [k \in 1..Len(s) |-> s[((k - 1 - shift) % Len(s)) + 1]]

\* The zero vector of torch.zeros
Zero == 0

Range(s) == {s[k] : k \in 1..Len(s)}

NoDup(s) == \A i, j \in 1..Len(s) : s[i] = s[j] => i = j


\* An optional Python value: None is the empty sequence, a value v is <<v>>
None == <<>>
Some(v) == <<v>>
IsNone(x) == Len(x) = 0
\* Python's `x or d` for an optional integer x: None and 0 are both falsy
OrDefault(x, d) == IF IsNone(x) \/ x[1] = 0 THEN d ELSE x[1]

VARIABLES
    pc,               \* where control is: see the actions
    client,           \* what the caller of next() does: "any" count, or "single" reads
    err,              \* the exception that ended the operation, "none" if none
    args,             \* the arguments ActivationsBufferConfig was called with
    cfg,              \* the ActivationsBufferConfig: the fields set so far
    corpus_len,       \* len(self.dataset['text'])
    dataset_pointer,  \* self.dataset_pointer
    buffer,           \* self.buffer, a sequence of vector identities
    buffer_pointer,   \* self.buffer_pointer
    caller,           \* who called refresh(): "init" or "next"
    rng,              \* the seeds the random sources were given (optional):
                      \* torch's generator and the corpus shuffle
    batch,            \* the argument of the next() call in progress (optional)
    out,              \* what the next() call in progress returns
    \* history variables: they record what happened and decide nothing
    nextId,           \* the identity the next sampled vector that fits gets
    calls,            \* the number of next() calls made so far
    refreshes,        \* the number of refresh() calls next() made so far
    entry,            \* the next() call in progress: pointer on entry, refreshes
                      \* before it
    atRefresh,        \* buffer and pointer when refresh() was last entered, in the
                      \* constructor or the call in progress
    lastRound,        \* the last round of the refresh() in progress (NoRound when
                      \* none has run, or refresh() has returned)
    passedZero,       \* whether some next() call was passed the count 0
    passedOver,       \* whether some next() call was passed a count larger than
                      \* buffer_size
    lastOut,          \* the latest-written vector among those next() has returned
                      \* to its caller so far (Zero when none)
    consumed,         \* the identities in the buffer that next() has returned or
                      \* moved the pointer past
    seenBefore        \* consumed, as it was before the read of the call in progress

vars == <<pc, client, rng, err, args, cfg, corpus_len, dataset_pointer, buffer, buffer_pointer,
          caller, batch, out, nextId, calls, refreshes, entry, atRefresh,
          lastRound, passedZero, passedOver, lastOut, consumed, seenBefore>>

bufferVars == <<rng, corpus_len, dataset_pointer, buffer, buffer_pointer, caller,
                batch, out, nextId, calls, refreshes, entry, atRefresh,
                lastRound, passedZero, passedOver, lastOut, consumed, seenBefore>>

\* ---------------------------------------------- ActivationsBufferConfig.__init__

\* A Python value passed as `layers`: a list of elements, or something that is
\* not a list (isList = FALSE: None, a tuple, an int).  An element is an int
\* or a str; val orders elements of one kind.
IntElem(v) == [kind |-> "int", val |-> v]
StrElem(v) == [kind |-> "str", val |-> v]

\* isinstance(layers, list) and len(layers) > 0: the assertion of line 41
LayersAccepted(layers) == layers.isList /\ Len(layers.elems) > 0

\* max(layers) of line 56 raises TypeError when it has to compare a str with an int
MaxRaises(layers) ==
    \E i, j \in 1..Len(layers.elems) : layers.elems[i].kind # layers.elems[j].kind

\* max(layers), when it does not raise
MaxElem(layers) ==
    CHOOSE e \in Range(layers.elems) : \A f \in Range(layers.elems) : f.val <= e.val

\* The fields lines 43..55 set, in the order they are set (the ones modelled)
FieldsBeforeMax(a) ==
    [layers           |-> a.layers,
     buffer_size      |-> a.buffer_size,
     min_capacity     |-> a.min_capacity,
     model_batch_size |-> a.model_batch_size,
     samples_per_seq  |-> a.samples_per_seq,
     seed             |-> a.seed]

\* All fields, final_layer (line 56) included
AllFields(a) ==
    [layers           |-> a.layers,
     buffer_size      |-> a.buffer_size,
     min_capacity     |-> a.min_capacity,
     model_batch_size |-> a.model_batch_size,
     samples_per_seq  |-> a.samples_per_seq,
     seed             |-> a.seed,
     final_layer      |-> MaxElem(a.layers)]

\* No field set: the object before line 43
NoFields == [f \in {} |-> 0]

\* The outcome of ActivationsBufferConfig(**a): the exception raised ("none"
\* when the constructor returns) and the fields set on self by then.
ConfigInit(a) ==
    IF ~LayersAccepted(a.layers)
    THEN [err |-> "AssertionError", fields |-> NoFields]
    ELSE IF MaxRaises(a.layers)
    THEN [err |-> "TypeError", fields |-> FieldsBeforeMax(a)]
    ELSE [err |-> "none", fields |-> AllFields(a)]


\* ------------------------------------------------- ActivationsBuffer.refresh

\* a buffer whose pointer starts at 0: the first refresh has nothing to fill
InitialPointerZero(c) == 0

\* line 99: the pointer starts at buffer_size, so that the first refresh fills
\* the whole buffer
InitialPointer(c) == c.buffer_size

\* line 95: torch.zeros((buffer_size, ...))
Zeros(n) == [k \in 1..n |-> Zero]

\* a roll to the right instead of to the left
RollOnEntryRight(buf, bp) == Roll(buf, bp)

\* line 113: torch.roll(self.buffer, -self.buffer_pointer, 0)
RollOnEntry(buf, bp) == Roll(buf, -bp)

\* a round that always requests a full model batch
BatchSizeFull(c, bp) == c.model_batch_size

\* line 118: min(ceil(buffer_pointer / samples_per_seq), model_batch_size)
BatchSize(c, bp) == Min(Ceil(bp, c.samples_per_seq), c.model_batch_size)

\* line 121: the number of sequences dataset['text'][dp : dp + batch_size] holds
SeqsRead(dp, bs, n) == SliceLen(dp, dp + bs, n)

\* an advance of the corpus pointer that does not wrap
AdvancePointerNoWrap(dp, bs, n) == dp + bs

\* line 124: (dataset_pointer + batch_size) % len(dataset['text'])
AdvancePointer(dp, bs, n) == PyMod(dp + bs, n)

\* a model round that yields no vector
ActsCountEmpty(c, nseqs, pos) == 0

\* line 137: randperm(pos)[:samples_per_seq], the first samples_per_seq entries
\* of a random permutation of the positions 0..pos-1: any sequence of
\* min(pos, samples_per_seq) distinct positions
PositionDraws(c, pos) ==
    {p \in [1..Min(pos, c.samples_per_seq) -> 0..(pos - 1)] : NoDup(p)}

\* line 137: acts[:, index] applies the one index to every sequence of the
\* batch; the positions sampled, per sequence
BatchDraws(c, nseqs, pos) ==
    {[q \in 1..nseqs |-> p] : p \in PositionDraws(c, pos)}

\* line 137: acts[:, randperm(pos)[:samples_per_seq]].flatten(0, 1) has
\* nseqs * min(pos, samples_per_seq) rows
ActsCount(c, nseqs, pos) == nseqs * Min(pos, c.samples_per_seq)

\* a write that starts at the front of the buffer, whatever the deficit
WritePointerFront(c, bp) == 0

\* line 138
WritePointer(c, bp) == c.buffer_size - bp

\* line 140: min(acts.shape[0], buffer_pointer)
NewActs(n, bp) == Min(n, bp)

\* line 141: buffer[wp : wp + n] = src.  torch copies when the slice has as
\* many rows as src, broadcasts a src of one row to a slice of any length, and
\* raises RuntimeError otherwise.
WriteFits(buf, wp, n, src) ==
    \/ SliceLen(wp, wp + n, Len(buf)) = Len(src)
    \/ Len(src) = 1

WriteSlice(buf, wp, n, src) ==
    LET lo == SliceLo(wp, wp + n, Len(buf))
        hi == SliceHi(wp, wp + n, Len(buf))
    IN  [k \in 1..Len(buf) |->
            IF lo < k /\ k <= hi
            THEN (IF Len(src) = 1 THEN src[1] ELSE src[k - lo])
            ELSE buf[k]]

\* One round of the loop of lines 116..144, for a batch whose sequences are
\* padded to pos positions: every value the round computes.
RoundOf(c, bp, dp, n, pos, id) ==
    LET bs    == BatchSize(c, bp)
        nseqs == SeqsRead(dp, bs, n)
        cnt   == ActsCount(c, nseqs, pos)
    IN  [deficit       |-> bp,
         batch_size    |-> bs,
         first_seq     |-> dp,
         nseqs         |-> nseqs,
         sampled       |-> cnt,
         firstId       |-> id,
         write_pointer |-> WritePointer(c, bp),
         new_acts      |-> NewActs(cnt, bp)]

NoRound == RoundOf([buffer_size |-> 0, samples_per_seq |-> 1, model_batch_size |-> 0],
                   0, 0, 0, 0, 0)

\* The sampled vectors of a round, acts (line 137).  The ones the deficit has
\* room for get the next identities; the surplus ones, which no slot is left
\* for, get negative identities -1, -2, ...
ActsOf(r) ==
    [k \in 1..r.sampled |->
        IF k <= Min(r.sampled, r.deficit) THEN r.firstId + k - 1
        ELSE Min(r.sampled, r.deficit) - k]
\* acts[:new_acts], the right-hand side of line 141
SrcOf(r) == Slice(ActsOf(r), 0, r.new_acts)

\* lines 116..144, the write of line 141 succeeding
Round(pos) ==
    /\ pc = "loop"
    /\ buffer_pointer > 0
    /\ \E r \in {RoundOf(cfg, buffer_pointer, dataset_pointer, corpus_len, pos, nextId)} :
       \E src \in {SrcOf(r)} :
           /\ WriteFits(buffer, r.write_pointer, r.sampled, src)
           /\ dataset_pointer' = AdvancePointer(dataset_pointer, r.batch_size, corpus_len)
           /\ buffer' = WriteSlice(buffer, r.write_pointer, r.sampled, src)
           /\ buffer_pointer' = buffer_pointer - r.new_acts
           /\ nextId' = nextId + Min(r.sampled, r.deficit)
           /\ lastRound' = r
    /\ consumed' = consumed \cap Range(buffer')
    /\ UNCHANGED <<client, rng, args, passedOver, lastOut, pc, err, cfg,
                   corpus_len, caller, batch, out, calls, refreshes, entry,
                   atRefresh, passedZero, seenBefore>>

\* lines 116..141, the write of line 141 raising
RoundRaises(pos) ==
    /\ pc = "loop"
    /\ buffer_pointer > 0
    /\ \E r \in {RoundOf(cfg, buffer_pointer, dataset_pointer, corpus_len, pos, nextId)} :
           /\ ~WriteFits(buffer, r.write_pointer, r.sampled, SrcOf(r))
           /\ dataset_pointer' = AdvancePointer(dataset_pointer, r.batch_size, corpus_len)
           /\ nextId' = nextId + Min(r.sampled, r.deficit)
           /\ lastRound' = r
    /\ pc' = "error"
    /\ err' = "RuntimeError"
    /\ UNCHANGED <<client, rng, args, passedOver, lastOut, cfg, corpus_len, buffer,
                   buffer_pointer, caller, batch, out, calls, refreshes, entry,
                   atRefresh, passedZero, consumed, seenBefore>>

\* lines 116 and 146: the loop ends, the assertion is evaluated, refresh returns
RefreshReturn ==
    /\ pc = "loop"
    /\ ~(buffer_pointer > 0)
    /\ IF buffer_pointer = 0
       THEN pc' = "refreshed" /\ err' = err
       ELSE pc' = "error" /\ err' = "AssertionError"
    /\ lastRound' = NoRound
    /\ UNCHANGED <<client, rng, args, passedOver, lastOut, cfg, corpus_len,
                   dataset_pointer, buffer, buffer_pointer, caller, batch, out,
                   nextId, calls, refreshes, entry, atRefresh, passedZero,
                   consumed, seenBefore>>


\* ------------------------------------------------ ActivationsBuffer.__init__

\* Python's truth value of an optional integer: None and 0 are falsy
Truthy(x) == ~IsNone(x) /\ x[1] # 0

\* lines 73, 74: `if cfg.seed: torch.manual_seed(cfg.seed)`; None when the
\* generator is left unseeded
TorchSeed(c) == IF Truthy(c.seed) THEN c.seed ELSE None

\* line 80: .shuffle(seed=cfg.seed)
ShuffleSeed(c) == c.seed

\* lines 70..102 up to the call of refresh(): the random sources are seeded, the
\* pointers are set, the buffer is allocated, and refresh() is entered
Construct ==
    /\ pc = "new"
    /\ rng' = [torch |-> TorchSeed(cfg), shuffle |-> ShuffleSeed(cfg)]
    /\ dataset_pointer' = 0
    /\ buffer_pointer' = InitialPointer(cfg)
    /\ buffer' = RollOnEntry(Zeros(cfg.buffer_size), buffer_pointer')
    /\ atRefresh' = [buffer |-> Zeros(cfg.buffer_size), pointer |-> buffer_pointer']
    /\ caller' = "init"
    /\ pc' = "loop"
    /\ UNCHANGED <<client, args, passedOver, lastOut, err, cfg, corpus_len, batch,
                   out, nextId, calls, refreshes, entry, lastRound, passedZero,
                   consumed, seenBefore>>

\* line 102 returns, and with it the constructor
ConstructReturn ==
    /\ pc = "refreshed"
    /\ caller = "init"
    /\ pc' = "idle"
    /\ UNCHANGED <<client, args, err, cfg, bufferVars>>

\* ---------------------------------------------------- ActivationsBuffer.next

\* nothing returned, no call and no refresh recorded
NoOut == [single |-> FALSE, vecs |-> <<>>, start |-> 0, refreshes |-> 0]
NoEntry == [pointer |-> 0, refreshes |-> 0]
NoRefresh == [buffer |-> <<>>, pointer |-> 0]

\* The arguments next() is called with: nothing, or a count from 0 to one more
\* than the largest buffer holds.  A client that reads one vector at a time
\* ("single") passes nothing or 1, and makes more calls; a client that
\* overdraws ("over") passes nothing or one more than its buffer holds; the
\* other clients pass any count up to one more than their buffer holds.
BatchArgs == {None} \cup {Some(n) : n \in 0..(MaxBuf + 1)}
ArgsOf(who, c) ==
    IF who = "single" THEN {None, Some(1)}
    ELSE IF who = "over" THEN {None, Some(c.buffer_size + 1)}
    ELSE {b \in BatchArgs : IsNone(b) \/ b[1] <= c.buffer_size + 1}
CallsOf(who) == IF who = "single" THEN MaxReads ELSE MaxCalls

\* a count larger than the buffer holds
CountOver(c, b) == ~IsNone(b) /\ b[1] > c.buffer_size

\* the latest-written of a vector and the vectors of a sequence: identities
\* grow in the order of writing
Latest(v, s) == IF Len(s) = 0 THEN v
                ELSE Max(v, CHOOSE x \in Range(s) : \A y \in Range(s) : y <= x)

\* an advance of the pointer by one vector, whatever the count
AdvanceByOne(bp, b) == bp + 1

\* a low-water test that also fires when exactly min_capacity would be left
RefillAtMinimum(c, bp, b) == c.buffer_size - (bp + OrDefault(b, 1)) <= c.min_capacity

\* line 150: buffer_size - (buffer_pointer + (batch or 1)) < min_capacity
Refill(c, bp, b) == c.buffer_size - (bp + OrDefault(b, 1)) < c.min_capacity

\* line 159: buffer_pointer += batch or 1
Advance(bp, b) == bp + OrDefault(b, 1)

\* lines 154..157: self.buffer[bp] or self.buffer[bp : bp + batch]
ReadOut(buf, bp, b) ==
    IF IsNone(b) THEN <<buf[bp + 1]>> ELSE Slice(buf, bp, bp + b[1])

\* self.buffer[bp] raises IndexError outside -len..len-1
IndexRaises(buf, bp, b) == IsNone(b) /\ ~(-Len(buf) <= bp /\ bp < Len(buf))

\* next(b) is called and line 150 holds: lines 151, 152 and the entry of refresh()
NextRefreshes(b) ==
    /\ pc = "idle"
    /\ calls < CallsOf(client)
    /\ b \in ArgsOf(client, cfg)
    /\ Refill(cfg, buffer_pointer, b)
    /\ batch' = b
    /\ calls' = calls + 1
    /\ entry' = [pointer |-> buffer_pointer, refreshes |-> refreshes]
    /\ refreshes' = refreshes + 1
    /\ buffer' = RollOnEntry(buffer, buffer_pointer)
    /\ atRefresh' = [buffer |-> buffer, pointer |-> buffer_pointer]
    /\ caller' = "next"
    /\ pc' = "loop"
    /\ passedZero' = (passedZero \/ b = Some(0))
    /\ passedOver' = (passedOver \/ CountOver(cfg, b))
    /\ UNCHANGED <<client, rng, args, lastOut, err, cfg, corpus_len,
                   dataset_pointer, buffer_pointer, out, nextId, lastRound,
                   consumed, seenBefore>>

\* next(b) is called and line 150 does not hold
NextSkipsRefresh(b) ==
    /\ pc = "idle"
    /\ calls < CallsOf(client)
    /\ b \in ArgsOf(client, cfg)
    /\ ~Refill(cfg, buffer_pointer, b)
    /\ batch' = b
    /\ calls' = calls + 1
    /\ entry' = [pointer |-> buffer_pointer, refreshes |-> refreshes]
    /\ pc' = "read"
    /\ passedZero' = (passedZero \/ b = Some(0))
    /\ passedOver' = (passedOver \/ CountOver(cfg, b))
    /\ UNCHANGED <<client, rng, args, lastOut, err, cfg, corpus_len,
                   dataset_pointer, buffer, buffer_pointer, caller, out, nextId,
                   refreshes, atRefresh, lastRound, consumed, seenBefore>>

\* lines 154..159: the read and the advance of the pointer
Read ==
    /\ \/ pc = "read"
       \/ pc = "refreshed" /\ caller = "next"
    /\ IF IndexRaises(buffer, buffer_pointer, batch)
       THEN /\ pc' = "error"
            /\ err' = "IndexError"
            /\ UNCHANGED <<buffer_pointer, out, consumed, seenBefore>>
       ELSE /\ out' = [single    |-> IsNone(batch),
                       vecs      |-> ReadOut(buffer, buffer_pointer, batch),
                       start     |-> buffer_pointer,
                       refreshes |-> refreshes]
            /\ buffer_pointer' = Advance(buffer_pointer, batch)
            /\ seenBefore' = consumed
            /\ consumed' = consumed \cup Range(out'.vecs) \cup
                              Range(Slice(buffer, buffer_pointer, buffer_pointer'))
            /\ pc' = "returned"
            /\ err' = err
    /\ UNCHANGED <<client, rng, args, passedOver, lastOut, cfg, corpus_len,
                   dataset_pointer, buffer, caller, batch, nextId, calls,
                   refreshes, entry, atRefresh, lastRound, passedZero>>

\* line 161: next() returns out to its caller; its locals and what is recorded
\* of the call are dropped
Return ==
    /\ pc = "returned"
    /\ pc' = "idle"
    /\ batch' = None
    /\ out' = NoOut
    /\ entry' = NoEntry
    /\ atRefresh' = NoRefresh
    /\ seenBefore' = {}
    /\ lastOut' = Latest(lastOut, out.vecs)
    /\ UNCHANGED <<client, rng, args, passedOver, err, cfg, corpus_len,
                   dataset_pointer, buffer, buffer_pointer, caller, nextId, calls,
                   refreshes, lastRound, passedZero, consumed>>

\* ------------------------------------------------------- the specifications

\* the layers of the configurations the buffer is explored with
SomeLayers == [isList |-> TRUE, elems |-> <<IntElem(0)>>]

\* constructor arguments that satisfy the sizing invariant
ValidArgs ==
    {[layers |-> SomeLayers, buffer_size |-> bs, min_capacity |-> mc,
      model_batch_size |-> mb, samples_per_seq |-> sp, seed |-> None] :
        bs \in 1..MaxBuf, mc \in 1..MaxBuf, mb \in 1..MaxBatch, sp \in 1..MaxSps}

SizedArgs == {a \in ValidArgs : a.min_capacity < a.buffer_size}


\* configurations with a seed, 0 included: the smallest sizes, as the seed
\* bears on nothing else
SeededArgs ==
    {[a EXCEPT !.seed = Some(sd)] :
        a \in {x \in SizedArgs : x.buffer_size = 2 /\ x.model_batch_size = 1
                                    /\ x.samples_per_seq = 1},
        sd \in 0..1}

\* the buffer's variables before ActivationsBuffer.__init__ runs
NoBuffer ==
    /\ rng = [torch |-> None, shuffle |-> None]
    /\ dataset_pointer = 0
    /\ buffer = <<>>
    /\ buffer_pointer = 0
    /\ caller = "init"
    /\ batch = None
    /\ out = NoOut
    /\ nextId = 1
    /\ calls = 0
    /\ refreshes = 0
    /\ entry = NoEntry
    /\ atRefresh = NoRefresh
    /\ lastRound = NoRound
    /\ passedZero = FALSE
    /\ passedOver = FALSE
    /\ lastOut = Zero
    /\ consumed = {}
    /\ seenBefore = {}

\* the configuration of the scenario of the specification's section 8:
\* capacity 16, minimum free capacity 4, 4 samples per sequence, batch size 2
ScenarioArgs ==
    [layers |-> SomeLayers, buffer_size |-> 16, min_capacity |-> 4,
     model_batch_size |-> 2, samples_per_seq |-> 4, seed |-> None]

\* A valid configuration and a non-empty corpus; the buffer is not yet built.
\* Clients that pass any count are explored on the small configurations, and
\* clients that read one vector at a time on these, on the seeded ones and on
\* the scenario's.
Init ==
    /\ pc = "new"
    /\ err = "none"
    /\ \/ client = "any" /\ args \in SizedArgs
       \/ client = "single" /\ args \in SizedArgs \cup SeededArgs \cup {ScenarioArgs}
    /\ cfg = ConfigInit(args).fields
    /\ corpus_len \in 1..MaxCorpus
    /\ NoBuffer

Next ==
    \/ Construct
    \/ ConstructReturn
    \/ \E pos \in 1..MaxPos : Round(pos)
    \/ \E pos \in 1..MaxPos : RoundRaises(pos)
    \/ RefreshReturn
    \/ \E b \in BatchArgs : NextRefreshes(b)
    \/ \E b \in BatchArgs : NextSkipsRefresh(b)
    \/ Read
    \/ Return

Spec == Init /\ [][Next]_vars

\* A valid configuration and a non-empty corpus, for the clients that read one
\* vector at a time and the clients that overdraw: between them refresh() is
\* entered with every pointer from 0 to buffer_size + 1.
InitFair ==
    /\ pc = "new"
    /\ err = "none"
    /\ client \in {"single", "over"}
    /\ args \in SizedArgs
    /\ cfg = ConfigInit(args).fields
    /\ corpus_len \in 1..MaxCorpus
    /\ NoBuffer

\* The loop of refresh() runs on: while its condition holds the body is
\* executed (lines 116..144), and when it fails the function returns (line 146).
SpecFair ==
    /\ InitFair
    /\ [][Next]_vars
    /\ WF_vars(\E pos \in 1..MaxPos : Round(pos) \/ RoundRaises(pos))
    /\ WF_vars(RefreshReturn)


\* ------------------------------- the specification of the configuration alone

\* the values passed as layers: lists of ints and strs of up to MaxLayers
\* elements, and two values that are not lists (None, and the tuple (0,))
ElemArgs == {IntElem(0), IntElem(1), StrElem(0)}
ListsUpTo(n) == UNION {[1..k -> ElemArgs] : k \in 0..n}
LayerArgs ==
    {[isList |-> TRUE, elems |-> l] : l \in ListsUpTo(MaxLayers)}
    \cup {[isList |-> FALSE, elems |-> <<>>], [isList |-> FALSE, elems |-> <<IntElem(0)>>]}

\* the values passed as sizes: negative, zero and positive
SizeArgs == -1..MaxBuf

AnyArgs ==
    {[layers |-> l, buffer_size |-> bs, min_capacity |-> mc,
      model_batch_size |-> mb, samples_per_seq |-> sp, seed |-> sd] :
        l \in LayerArgs, bs \in SizeArgs, mc \in SizeArgs,
        mb \in {0, 1}, sp \in {0, 1}, sd \in {None, Some(0), Some(1)}}

\* Nothing is constructed yet
InitCfg ==
    /\ pc = "config"
    /\ client = "any"
    /\ err = "none"
    /\ args \in AnyArgs
    /\ cfg = NoFields
    /\ corpus_len = 1
    /\ NoBuffer

\* ActivationsBufferConfig(**args) returns
ConfigReturns ==
    /\ pc = "config"
    /\ ConfigInit(args).err = "none"
    /\ cfg' = ConfigInit(args).fields
    /\ pc' = "config_done"
    /\ UNCHANGED <<client, err, args, bufferVars>>

\* ActivationsBufferConfig(**args) raises
ConfigRaises ==
    /\ pc = "config"
    /\ ConfigInit(args).err # "none"
    /\ cfg' = ConfigInit(args).fields
    /\ err' = ConfigInit(args).err
    /\ pc' = "config_failed"
    /\ UNCHANGED <<client, args, bufferVars>>

NextCfg == ConfigReturns \/ ConfigRaises

SpecCfg == InitCfg /\ [][NextCfg]_vars


\* --------------------------------------------------------------- the claims

\* every slot of the store holds a vector a model round produced and the
\* deficit had room for: not the zero-fill, not a surplus vector
AllSampled(buf) == \A k \in 1..Len(buf) : buf[k] > Zero /\ buf[k] < nextId

\* C1: after construction and after every completed refresh(), buffer_pointer
\* is 0 and every one of the buffer_size slots holds a vector produced by a
\* model round (none holds the zero-fill), and the assertion of line 146
\* never fails.
C1_RefreshFillsStore ==
    /\ err # "AssertionError"
    /\ (pc = "refreshed" \/ (pc = "idle" /\ calls = 0)) =>
          /\ buffer_pointer = 0
          /\ Len(buffer) = cfg.buffer_size
          /\ AllSampled(buffer)

\* a refresh() that next() triggered with a deficit has completed
C1_Witness ==
    /\ pc = "refreshed"
    /\ caller = "next"
    /\ atRefresh.pointer > 0
    /\ AllSampled(buffer)

\* a next() call is in progress, up to its return
InCall == calls > 0 /\ pc # "idle"

\* the count a call next(b) reads: b, or 1 in the default form
CountOf(b) == IF IsNone(b) THEN 1 ELSE b[1]

\* the low-water condition of the claims, for a read of n vectors at pointer p
LowWater(p, n) == cfg.buffer_size - (p + n) < cfg.min_capacity

C3_ReturnsExactlyCount ==
    pc = "returned" =>
        IF IsNone(batch)
        THEN out.single /\ Len(out.vecs) = 1
        ELSE batch[1] >= 1 => (~out.single /\ Len(out.vecs) = batch[1])

\* C4: for every call next(n) with an explicit n >= 0, and the default form
\* (n = 1), the vectors returned start at the value buffer_pointer has after
\* any refill the call triggered, and on return buffer_pointer is that value
\* plus n.
C4_AdvancesByCount ==
    pc = "returned" =>
        /\ out.start = (IF refreshes > entry.refreshes THEN 0 ELSE entry.pointer)
        /\ out.vecs = Slice(buffer, out.start, out.start + CountOf(batch))
        /\ buffer_pointer = out.start + CountOf(batch)

\* C5: after construction and any sequence of next(count) calls with counts
\* >= 1 (or the default form), 0 <= buffer_pointer <= buffer_size whenever
\* control is outside a public operation.
C5_PointerWithinStore ==
    (pc \in {"idle", "returned"} /\ ~passedZero) =>
        (0 <= buffer_pointer /\ buffer_pointer <= cfg.buffer_size)

\* C6: after construction and after every next(count) call returns, count >= 1,
\* the number of unread vectors left, buffer_size - buffer_pointer, is at
\* least min_capacity.
C6_MinCapacityLeft ==
    (pc \in {"idle", "returned"} /\ ~passedZero) =>
        cfg.buffer_size - buffer_pointer >= cfg.min_capacity

\* C7: every vector next() returns is unread when it is returned: no vector is
\* returned by two calls, and no call returns a slot that was consumed and not
\* yet rewritten by a refill.
C7_ReturnsUnreadOnly ==
    /\ Range(out.vecs) \cap seenBefore = {}
    /\ NoDup(out.vecs)

\* a read has returned vectors while consumed vectors were still in the store
C7_Witness ==
    /\ pc = "returned"
    /\ calls >= 2
    /\ Len(out.vecs) >= 1
    /\ seenBefore # {}
    /\ seenBefore \subseteq Range(buffer)

\* a layers argument the configuration is to reject: not a list, empty, or
\* with an element that is not an int
Malformed(l) ==
    \/ ~l.isList
    \/ Len(l.elems) = 0
    \/ \E k \in 1..Len(l.elems) : l.elems[k].kind # "int"

\* C8: the ActivationsBufferConfig constructor fails for every layers argument
\* that is an empty list, not a list, or a list with a non-integer element,
\* before any field is set; it succeeds for every non-empty list of ints.
C8_RejectsMalformedLayers ==
    pc # "config" =>
        /\ Malformed(args.layers) => (pc = "config_failed" /\ DOMAIN cfg = {})
        /\ ~Malformed(args.layers) => pc = "config_done"

\* C9: every ActivationsBufferConfig whose constructor returns satisfies the
\* sizing invariant: buffer_size, min_capacity, model_batch_size and
\* samples_per_seq are positive and min_capacity < buffer_size.
C9_SizesValidated ==
    pc = "config_done" =>
        /\ cfg.buffer_size > 0
        /\ cfg.min_capacity > 0
        /\ cfg.model_batch_size > 0
        /\ cfg.samples_per_seq > 0
        /\ cfg.min_capacity < cfg.buffer_size

\* C10: for a non-empty corpus dataset_pointer is in [0, corpus length) in
\* every reachable state, also after more sequences were requested than the
\* corpus holds, and no refill round raises an error because dataset_pointer +
\* batch size runs past the corpus end: a round that raises has a negative
\* write pointer.
C10_PointerWrapsInCorpus ==
    corpus_len > 0 =>
        /\ 0 <= dataset_pointer /\ dataset_pointer < corpus_len
        /\ pc = "error" => lastRound.write_pointer < 0

\* a round has run past the corpus end and completed
C10_Witness ==
    /\ pc = "loop"
    /\ err = "none"
    /\ lastRound # NoRound
    /\ lastRound.first_seq + lastRound.batch_size > corpus_len
    /\ dataset_pointer < lastRound.first_seq + lastRound.batch_size

\* a refresh() is in progress or has just completed, and it was entered with a
\* pointer within the buffer
RefreshWithin ==
    /\ pc \in {"loop", "refreshed"}
    /\ 0 <= atRefresh.pointer
    /\ atRefresh.pointer <= cfg.buffer_size

\* C11: a refresh() entered with buffer_pointer = d, 0 <= d <= buffer_size,
\* preserves the unread vectors and their order: for every i in
\* [0, buffer_size - d) the store holds at index i, during and after the
\* refill, the vector that was at index i + d before it; the rounds of the
\* refill write only into indices [buffer_size - d, buffer_size).
C11_UnreadPreserved ==
    RefreshWithin =>
        /\ \A i \in 0..(cfg.buffer_size - atRefresh.pointer - 1) :
               buffer[i + 1] = atRefresh.buffer[i + atRefresh.pointer + 1]
        /\ lastRound # NoRound =>
               /\ lastRound.write_pointer >= cfg.buffer_size - atRefresh.pointer
               /\ lastRound.write_pointer + lastRound.new_acts <= cfg.buffer_size

\* a refresh() that next() entered with unread vectors left has refilled the
\* vacated slots
C11_Witness ==
    /\ pc = "refreshed"
    /\ caller = "next"
    /\ atRefresh.pointer > 0
    /\ atRefresh.pointer < cfg.buffer_size
    /\ buffer # RollOnEntry(atRefresh.buffer, atRefresh.pointer)

\* C12: every refresh() entered with a pointer in [0, buffer_size], for a
\* configuration with positive sizes and a non-empty corpus, terminates: every
\* round writes at least one vector, and the loop reaches buffer_pointer = 0 and
\* returns, also when sequences have fewer positions than samples_per_seq and
\* when the corpus slice yields fewer sequences than requested.
C12_RefreshTerminates ==
    /\ [](RefreshWithin /\ lastRound # NoRound => lastRound.new_acts >= 1)
    /\ (pc = "loop" /\ atRefresh.pointer <= cfg.buffer_size) ~> (pc = "refreshed")

\* the loop has reached a deficit of 0 after several rounds, the last of them
\* on sequences with fewer positions than samples_per_seq
C12_Witness ==
    /\ pc = "loop"
    /\ buffer_pointer = 0
    /\ lastRound # NoRound
    /\ lastRound.deficit < atRefresh.pointer
    /\ lastRound.sampled < lastRound.nseqs * cfg.samples_per_seq

\* C13: in every refill round exactly batch-size sequences are read from the
\* corpus and passed to the model, also when dataset_pointer + batch size
\* exceeds the corpus length (the read wraps around).
C13_ReadsBatchSize ==
    lastRound # NoRound => lastRound.nseqs = lastRound.batch_size

\* the number of vectors a round is to write: min(sampled, deficit)
ToWrite(r) == Min(r.sampled, r.deficit)

\* the slots of the store that hold a vector the store did not hold when
\* refresh() was entered
NewSlots == {k \in 1..Len(buffer) : buffer[k] \notin Range(atRefresh.buffer)}

\* C14: in every refill round min(sampled, deficit) vectors are written,
\* contiguously from index buffer_size - deficit; sampled vectors beyond the
\* deficit never appear in the store, no index >= buffer_size is written, the
\* deficit decreases by exactly the number written, and the total written by
\* one refill equals the buffer_pointer it was entered with.
C14_WritesMinOfSampledAndDeficit ==
    /\ \A k \in 1..Len(buffer) : buffer[k] >= Zero
    /\ Len(buffer) = (IF pc = "new" THEN 0 ELSE cfg.buffer_size)
    /\ (pc = "loop" /\ lastRound # NoRound) =>
          /\ lastRound.write_pointer = cfg.buffer_size - lastRound.deficit
          /\ lastRound.write_pointer >= 0
          /\ lastRound.write_pointer + ToWrite(lastRound) <= cfg.buffer_size
          /\ \A k \in 1..ToWrite(lastRound) :
                 buffer[lastRound.write_pointer + k] = lastRound.firstId + k - 1
          /\ buffer_pointer = lastRound.deficit - ToWrite(lastRound)
    /\ pc = "refreshed" => Cardinality(NewSlots) = atRefresh.pointer

\* the least q with q * d >= n: ceil(n / d), for d > 0
CeilOf(n, d) == CHOOSE q \in 0..n : q * d >= n /\ \A p \in 0..(q - 1) : p * d < n

\* C15: in every refill round the number of sequences requested is
\* min(model_batch_size, ceil(deficit / samples_per_seq)) for the deficit at
\* the start of the round: at least 1, at most model_batch_size, and no more
\* than needed to cover the deficit, (batch size - 1) * samples_per_seq < deficit.
C15_BatchSizeCoversDeficit ==
    lastRound # NoRound =>
        /\ lastRound.batch_size =
              Min(cfg.model_batch_size, CeilOf(lastRound.deficit, cfg.samples_per_seq))
        /\ lastRound.batch_size >= 1
        /\ lastRound.batch_size <= cfg.model_batch_size
        /\ (lastRound.batch_size - 1) * cfg.samples_per_seq < lastRound.deficit

\* a round has requested fewer sequences than a full model batch, for a
\* deficit that is not a multiple of samples_per_seq
C15_Witness ==
    /\ pc = "loop"
    /\ lastRound # NoRound
    /\ lastRound.batch_size < cfg.model_batch_size
    /\ lastRound.deficit % cfg.samples_per_seq # 0

\* the draws of a batch when every sequence gets a draw of its own
IndependentDraws(c, nseqs, pos) == [1..nseqs -> PositionDraws(c, pos)]

\* the number of rows of acts for a draw d: one per sequence and position
RowsOf(d) == IF Len(d) = 0 THEN 0 ELSE Len(d) * Len(d[1])

\* C16: in every refill round the positions are drawn for each sequence of
\* the batch independently: no position is repeated within a sequence, and
\* every combination of one draw per sequence can come out, so two sequences
\* of a batch can receive different positions.
C16_PositionsPerSequence ==
    (pc = "loop" /\ buffer_pointer > 0) =>
        \A pos \in 1..MaxPos :
           LET n == SeqsRead(dataset_pointer, BatchSize(cfg, buffer_pointer), corpus_len)
           IN  /\ \A d \in BatchDraws(cfg, n, pos) :
                     /\ \A q \in 1..n : NoDup(d[q])
                     /\ RowsOf(d) = ActsCount(cfg, n, pos)
               /\ BatchDraws(cfg, n, pos) = IndependentDraws(cfg, n, pos)

\* C17: whenever the configuration's seed is not None, 0 included, the
\* construction of the buffer seeds the random source of the per-sequence
\* sampling with it before the first refill, and passes it to the corpus
\* shuffle; when the seed is None neither is seeded.
C17_SeedsBothSources ==
    pc # "new" =>
        /\ rng.torch = cfg.seed
        /\ rng.shuffle = cfg.seed

\* C18: delivery is first-in first-out: over any sequence of next() calls with
\* counts between 1 and buffer_size, vectors are returned in exactly the order
\* in which model rounds wrote them: every vector returned is the one written
\* next after the vector returned before it.
C18_FirstInFirstOut ==
    (pc = "returned" /\ ~passedZero /\ ~passedOver) =>
        \A i \in 1..Len(out.vecs) : out.vecs[i] = lastOut + i

\* a call after earlier ones has returned vectors a refill of next() wrote
C18_Witness ==
    /\ pc = "returned"
    /\ ~passedZero /\ ~passedOver
    /\ lastOut > Zero
    /\ Len(out.vecs) >= 2
    /\ out.vecs[Len(out.vecs)] > cfg.buffer_size

\* C19: no corpus sequence is skipped: after a round dataset_pointer is the
\* index of the sequence that follows the last sequence the round actually
\* read, modulo the corpus length, also in a round that crosses the corpus end.
C19_NoSequenceSkipped ==
    (pc \in {"loop", "error"} /\ lastRound # NoRound) =>
        dataset_pointer = (lastRound.first_seq + lastRound.nseqs) % corpus_len

\* the write of a round fits: the destination slice has non-negative indices
\* and as many slots as there are vectors assigned to it
RoundFits(r) ==
    /\ r.write_pointer >= 0
    /\ SliceLen(r.write_pointer, r.write_pointer + r.sampled, cfg.buffer_size) = r.new_acts

\* C20: no sequence of next(count) calls with counts >= 1, counts larger than
\* buffer_size included, drives the buffer into a state where a later refill
\* fails: in every refill round the destination slice of the write is
\* non-negative-indexed and has exactly as many slots as the vectors assigned
\* to it, and the write raises no error.
C20_RefillNeverFails ==
    ~passedZero =>
        /\ err = "none"
        /\ lastRound # NoRound => RoundFits(lastRound)

=============================================================================
